---- MODULE Spec2Model ----
(***************************************************************************)
(* Model of the mcp-pyrefly-autotype server                                *)
(* (src/src/mcp_pyrefly_autotype/server.py).                               *)
(*                                                                         *)
(* The server handles one request at a time.  A tool call validates its    *)
(* arguments, optionally copies the target file to a backup, runs one      *)
(* external process with a timeout, wraps the outcome into a result record *)
(* and formats a text response.                                            *)
(*                                                                         *)
(* Python strings that are formatted into responses are modelled as        *)
(* sequences of tokens: a literal of the source is one token, an f-string  *)
(* is the concatenation of its parts.  Python dicts are functions whose    *)
(* DOMAIN is the set of keys that are present.  A call either returns a    *)
(* value (Ret) or raises (Raise).                                          *)
(***************************************************************************)
EXTENDS Integers, Sequences, FiniteSets, TLC

VARIABLES
    fs,        \* the filesystem: path -> NoFile, IsDir or a file content
    pc,        \* position of the handler that is running
    req,       \* the request being handled: name and arguments
    proc,      \* the external process of this invocation
    spawned,   \* number of subprocess.run calls made by this invocation
    backup,    \* outcome of this invocation's shutil.copy2: none, ok, failed
    atSpawn,   \* what fs held at file_path when subprocess.run was called
    result,    \* what run_pyrefly_command / _autotype / _check returned
    analysis,  \* what analyze_file / get_project_context returned
    response,  \* what the handler returned or raised to the caller
    project_context,  \* pyrefly_analyzer.project_context, shared by all calls
    unit       \* a function applied on its own: its input and its result

vars == <<fs, pc, req, proc, spawned, backup, atSpawn, result, analysis, response,
          project_context, unit>>

----------------------------------------------------------------------------
(* Bounds *)

MaxOut == 2        \* longest captured stdout, in tokens
MaxContent == 1    \* file contents are 0..MaxContent
MaxParseLen == 5   \* longest output given to _parse_pyrefly_analysis on its own
MaxDirs == 2       \* most directories below the root given to the walk on its own
MaxPending == 1    \* most requests waiting in the event loop behind the running one

----------------------------------------------------------------------------
(* Values *)

Contents == 0..MaxContent

\* what the filesystem holds at a path
NoFile == [kind |-> "absent", content |-> 0]
IsDir == [kind |-> "dir", content |-> 0]
File(c) == [kind |-> "file", content |-> c]

\* paths a caller may pass ("" is the empty string)
ArgPaths == {"", "a.py", "missing.py", "proj"}

BackupPath(file_path) == file_path \o ".backup"

AllPaths == (ArgPaths \ {""}) \cup {BackupPath(p) : p \in ArgPaths \ {""}}

\* a bug: one branch of the dispatch tests a misspelt name
ToolNames_Misspelt ==
    {"analyze_python_file", "add_types_to_file", "typecheck_file", "get_project_context"}

\* the names handle_call_tool dispatches on
ToolNames == {"analyze_python_file", "add_types_to_file", "type_check_file",
              "get_project_context"}

\* names a caller may pass
CallNames == ToolNames \cup {"no_such_tool", "analyze_typing_needs"}

\* tokens the external tool may print; lines about variables are among the
\* outputs _parse_pyrefly_analysis is given on its own (ParseTokens)
OutTokens == {"\n", " ", "Function", "TYPE"}

RECURSIVE SeqsUpTo(_, _)
SeqsUpTo(S, n) ==
    IF n = 0 THEN {<<>>}
    ELSE LET shorter == SeqsUpTo(S, n - 1)
         IN  shorter \cup {Append(s, t) : s \in {q \in shorter : Len(q) = n - 1}, t \in S}

Stdouts == SeqsUpTo(OutTokens, MaxOut)

\* outputs given to _parse_pyrefly_analysis on its own
ParseTokens == OutTokens \cup {"variable", "Typed"}
ParseInputs == SeqsUpTo(ParseTokens, MaxParseLen)
Stderrs == {<<>>, <<"error: cannot infer">>}
ReturnCodes == {0, 1}
LaunchErrors == {<<"[Errno 2] No such file or directory: 'uv'">>}

\* Python values: a call returns or raises
Ret(v) == [set |-> TRUE, raised |-> FALSE, value |-> v]
Raise(e, m) == [set |-> TRUE, raised |-> TRUE, exc |-> e, msg |-> m]
NotSet == [set |-> FALSE]

EmptyDict == [k \in {} |-> 0]

\* dict.get(key, default)
Get(d, key, default) == IF key \in DOMAIN d THEN d[key] ELSE default

NoProc == [status |-> "none", fn |-> "", cmd |-> <<>>, timeout |-> 0,
           rc |-> 0, out |-> <<>>, err |-> <<>>, exc |-> <<>>]

----------------------------------------------------------------------------
(* Arguments a caller may pass *)

PathDicts ==
    {EmptyDict} \cup {k :> p : k \in {"file_path", "project_path"}, p \in ArgPaths}

OptBool(key) == {EmptyDict, key :> TRUE, key :> FALSE}

\* the optional flags of each tool's input schema; a caller may also send
\* a key the schema does not list
FlagDicts(name) ==
    IF name = "analyze_python_file" THEN OptBool("detailed")
    ELSE IF name = "add_types_to_file"
    THEN OptBool("backup")
           \cup {"aggressive" :> TRUE, "safe_mode" :> FALSE,
                 ("backup" :> FALSE) @@ ("aggressive" :> TRUE) @@ ("verbose" :> TRUE)}
    ELSE {EmptyDict}

ArgDicts(name) == {p @@ f : p \in PathDicts, f \in FlagDicts(name)}

----------------------------------------------------------------------------
(* Filesystem *)

\* a bug: the existence check is missing
os_path_exists_Always(path) == TRUE

\* os.path.exists
os_path_exists(path) == path \in DOMAIN fs /\ fs[path] # NoFile

----------------------------------------------------------------------------
(* handle_call_tool: validation *)

\* the path argument each operation reads
PathKey(name) ==
    IF name \in {"get_project_context", "type_improvement_plan"}
    THEN "project_path" ELSE "file_path"

\* arguments.get("file_path"); an absent key gives None, which `not` treats
\* like the empty string, so both are ""
PathArg(name, arguments) == Get(arguments, PathKey(name), "")

NotFoundMsg(name, path) ==
    IF name = "get_project_context" THEN <<"Project path not found: ", path>>
    ELSE <<"File not found: ", path>>

\* a bug: the tool name is looked at before the arguments
ValidateTool_NameFirst(r) ==
    IF r.name \notin ToolNames
    THEN Raise("ValueError", <<"Unknown tool: ", r.name>>)
    ELSE IF ~r.hasArgs \/ DOMAIN r.arguments = {}
    THEN Raise("ValueError", <<"Missing arguments">>)
    ELSE IF PathArg(r.name, r.arguments) = ""
    THEN Raise("ValueError", <<"Missing ", PathKey(r.name), " argument">>)
    ELSE IF ~os_path_exists(PathArg(r.name, r.arguments))
    THEN Raise("ValueError", NotFoundMsg(r.name, PathArg(r.name, r.arguments)))
    ELSE Ret(PathArg(r.name, r.arguments))

\* the checks the handler makes before it does anything else
ValidateTool(r) ==
    IF ~r.hasArgs \/ DOMAIN r.arguments = {}
    THEN Raise("ValueError", <<"Missing arguments">>)
    ELSE IF r.name \notin ToolNames
    THEN Raise("ValueError", <<"Unknown tool: ", r.name>>)
    ELSE IF PathArg(r.name, r.arguments) = ""
    THEN Raise("ValueError", <<"Missing ", PathKey(r.name), " argument">>)
    ELSE IF ~os_path_exists(PathArg(r.name, r.arguments))
    THEN Raise("ValueError", NotFoundMsg(r.name, PathArg(r.name, r.arguments)))
    ELSE Ret(PathArg(r.name, r.arguments))

----------------------------------------------------------------------------
(* The external process and the three functions that run it *)

DefaultTimeout == 60
AutotypeTimeout == 60
CheckTimeout == 30

\* the function the handler of `name` runs the process through
RunFn(name) ==
    IF name = "add_types_to_file" THEN "run_pyrefly_autotype"
    ELSE IF name = "type_check_file" THEN "run_pyrefly_check"
    ELSE "run_pyrefly_command"

\* the options dict handle_call_tool passes to run_pyrefly_autotype
AutotypeOptions(arguments) ==
    [aggressive |-> Get(arguments, "aggressive", FALSE),
     safe_mode |-> Get(arguments, "safe_mode", TRUE)]

\* a bug: the aggressive option is turned into a flag of the command line
AutotypeCmd_AggressiveFlag(file_path, options) ==
    <<"uv", "run", "pyrefly", "autotype", file_path>>
        \o (IF DOMAIN options # {} /\ Get(options, "aggressive", FALSE)
            THEN <<"--aggressive">> ELSE <<>>)

\* cmd of run_pyrefly_autotype
AutotypeCmd(file_path, options) ==
    <<"uv", "run", "pyrefly", "autotype", file_path>>
        \o (IF DOMAIN options # {} /\ Get(options, "verbose", FALSE)
            THEN <<"--verbose">> ELSE <<>>)

\* the command line the handler of `name` has run
CmdOf(name, arguments) ==
    IF name = "add_types_to_file"
    THEN AutotypeCmd(PathArg(name, arguments), AutotypeOptions(arguments))
    ELSE IF name \in {"analyze_python_file", "analyze_typing_needs"}
    THEN <<"uv", "run", "pyrefly", "autotype", PathArg(name, arguments)>>
    ELSE <<"uv", "run", "pyrefly", "check", PathArg(name, arguments)>>

TimeoutOf(name) ==
    IF name = "add_types_to_file" THEN AutotypeTimeout
    ELSE IF name = "type_check_file" THEN CheckTimeout
    ELSE DefaultTimeout

\* a bug: any completed process counts as a success
run_pyrefly_command_AnyExit(p) ==
    IF p.status = "exited"
    THEN Ret([success |-> TRUE, stdout |-> p.out, stderr |-> p.err,
              returncode |-> p.rc])
    ELSE IF p.status = "timeout"
    THEN Ret([success |-> FALSE,
              error |-> <<"Pyrefly execution timed out after ",
                          ToString(p.timeout), "s">>])
    ELSE Ret([success |-> FALSE, error |-> p.exc])

\* PyreflyAnalyzer.run_pyrefly_command, given how the process ended
run_pyrefly_command(p) ==
    IF p.status = "exited"
    THEN Ret([success |-> p.rc = 0, stdout |-> p.out, stderr |-> p.err,
              returncode |-> p.rc])
    ELSE IF p.status = "timeout"
    THEN Ret([success |-> FALSE,
              error |-> <<"Pyrefly execution timed out after ",
                          ToString(p.timeout), "s">>])
    ELSE Ret([success |-> FALSE, error |-> p.exc])

\* run_pyrefly_autotype, given how the process ended
run_pyrefly_autotype(p) ==
    IF p.status = "exited"
    THEN Ret([success |-> p.rc = 0, stdout |-> p.out, stderr |-> p.err,
              returncode |-> p.rc])
    ELSE IF p.status = "timeout"
    THEN Ret([success |-> FALSE,
              error |-> <<"Pyrefly autotype execution timed out">>])
    ELSE Ret([success |-> FALSE, error |-> p.exc])

\* a bug: the TimeoutExpired handler is missing
run_pyrefly_check_NoTimeoutHandler(p) ==
    IF p.status = "exited"
    THEN Ret([success |-> p.rc = 0, output |-> p.out, errors |-> p.err,
              returncode |-> p.rc])
    ELSE IF p.status = "timeout"
    THEN Raise("TimeoutExpired", <<"Command timed out">>)
    ELSE Ret([success |-> FALSE, error |-> p.exc])

\* a bug: stderr is stored where stdout belongs
run_pyrefly_check_SwapStreams(p) ==
    IF p.status = "exited"
    THEN Ret([success |-> p.rc = 0, output |-> p.err, errors |-> p.out,
              returncode |-> p.rc])
    ELSE IF p.status = "timeout"
    THEN Ret([success |-> FALSE,
              error |-> <<"Pyrefly check execution timed out">>])
    ELSE Ret([success |-> FALSE, error |-> p.exc])

\* run_pyrefly_check, given how the process ended
run_pyrefly_check(p) ==
    IF p.status = "exited"
    THEN Ret([success |-> p.rc = 0, output |-> p.out, errors |-> p.err,
              returncode |-> p.rc])
    ELSE IF p.status = "timeout"
    THEN Ret([success |-> FALSE,
              error |-> <<"Pyrefly check execution timed out">>])
    ELSE Ret([success |-> FALSE, error |-> p.exc])

RunRecord(p) ==
    IF p.fn = "run_pyrefly_autotype" THEN run_pyrefly_autotype(p)
    ELSE IF p.fn = "run_pyrefly_check" THEN run_pyrefly_check(p)
    ELSE run_pyrefly_command(p)

\* the autotype subcommand rewrites the file it is given; check does not
Rewrites(cmd, path) == cmd[4] = "autotype" /\ fs[path].kind = "file"

----------------------------------------------------------------------------
(* String helpers (strings are sequences of tokens) *)

\* str.lower of one token
LowerToken(t) ==
    IF t = "Function" THEN "function"
    ELSE IF t = "TYPE" THEN "type"
    ELSE IF t = "Typed" THEN "typed"
    ELSE IF t = "True" THEN "true"
    ELSE t

\* str.lower
Lower(s) == [i \in 1..Len(s) |-> LowerToken(s[i])]

IsSpace(t) == t = " " \/ t = "\n"

\* str.strip
RECURSIVE Strip(_)
Strip(s) ==
    IF s = <<>> THEN <<>>
    ELSE IF IsSpace(Head(s)) THEN Strip(Tail(s))
    ELSE IF IsSpace(s[Len(s)]) THEN Strip(SubSeq(s, 1, Len(s) - 1))
    ELSE s

\* str.split('\n'): the list of lines, never empty
RECURSIVE SplitLines(_)
SplitLines(s) ==
    IF \A i \in 1..Len(s) : s[i] # "\n" THEN <<s>>
    ELSE LET i == CHOOSE j \in 1..Len(s) :
                      s[j] = "\n" /\ \A k \in 1..(j - 1) : s[k] # "\n"
         IN  <<SubSeq(s, 1, i - 1)>> \o SplitLines(SubSeq(s, i + 1, Len(s)))

\* `word in token` for one lower-case token: the token is the word or has it
\* inside ("typed" has "type")
Within(word, token) == token = word \/ (word = "type" /\ token = "typed")

\* `word in s`
In(word, s) == \E i \in 1..Len(s) : Within(word, s[i])

\* `part in text` for a part of several tokens
Contains(text, part) ==
    \E i \in 0..(Len(text) - Len(part)) :
        \A j \in 1..Len(part) : text[i + j] = part[j]

\* chr(10).join(f"  - {x}" for x in items)
RECURSIVE Bullets(_)
Bullets(items) ==
    IF items = <<>> THEN <<>>
    ELSE IF Len(items) = 1 THEN <<"  - ">> \o Head(items)
    ELSE <<"  - ">> \o Head(items) \o <<"\n">> \o Bullets(Tail(items))

\* str(bool)
BoolStr(b) == IF b THEN "True" ELSE "False"

----------------------------------------------------------------------------
(* PyreflyAnalyzer *)

IsFunctionLine(line) == In("function", Lower(line)) /\ In("type", Lower(line))
IsVariableLine(line) == In("variable", Lower(line)) /\ In("type", Lower(line))

\* the stripped lines, in order, that the loop appends to one of the lists
\* a bug: `if` where the loop has `elif`
RECURSIVE SelectLines_NoElif(_, _)
SelectLines_NoElif(lines, kind) ==
    IF lines = <<>> THEN <<>>
    ELSE LET line == Strip(Head(lines))
             keep == IF kind = "function" THEN IsFunctionLine(line)
                     ELSE IsVariableLine(line)
         IN  (IF keep THEN <<line>> ELSE <<>>) \o SelectLines_NoElif(Tail(lines), kind)

RECURSIVE SelectLines(_, _)
SelectLines(lines, kind) ==
    IF lines = <<>> THEN <<>>
    ELSE LET line == Strip(Head(lines))
             keep == IF kind = "function" THEN IsFunctionLine(line)
                     ELSE ~IsFunctionLine(line) /\ IsVariableLine(line)
         IN  (IF keep THEN <<line>> ELSE <<>>) \o SelectLines(Tail(lines), kind)

\* PyreflyAnalyzer._parse_pyrefly_analysis
_parse_pyrefly_analysis(output, file_path) ==
    [file_path |-> file_path,
     functions_needing_types |-> SelectLines(SplitLines(output), "function"),
     variables_needing_types |-> SelectLines(SplitLines(output), "variable"),
     suggested_types |-> EmptyDict,
     total_functions |-> 0,
     total_variables |-> 0,
     pyrefly_output |-> output]

\* a bug: the error record forgets the file path
analyze_file_NoPath(file_path, r) ==
    IF r.raised THEN Ret([error |-> r.msg, file_path |-> file_path])
    ELSE IF r.value.success
    THEN Ret(_parse_pyrefly_analysis(r.value.stdout, file_path))
    ELSE Ret([error |-> Get(r.value, "error",
                            Get(r.value, "stderr", <<"Unknown error">>))])

\* a bug: the output is stripped before it is stored
analyze_file_Stripped(file_path, r) ==
    IF r.raised THEN Ret([error |-> r.msg, file_path |-> file_path])
    ELSE IF r.value.success
    THEN Ret(_parse_pyrefly_analysis(Strip(r.value.stdout), file_path))
    ELSE Ret([error |-> Get(r.value, "error",
                            Get(r.value, "stderr", <<"Unknown error">>)),
              file_path |-> file_path])

\* PyreflyAnalyzer.analyze_file, given what run_pyrefly_command did
analyze_file(file_path, r) ==
    IF r.raised THEN Ret([error |-> r.msg, file_path |-> file_path])
    ELSE IF r.value.success
    THEN Ret(_parse_pyrefly_analysis(r.value.stdout, file_path))
    ELSE Ret([error |-> Get(r.value, "error",
                            Get(r.value, "stderr", <<"Unknown error">>)),
              file_path |-> file_path])

\* the directory tree below "proj": a directory is its files and its
\* subdirectories; a name is a sequence of characters, except that the two
\* reserved directory names are written as one part
Py(stem) == <<stem, ".", "p", "y">>
Leaf(files) == [files |-> files, dirs |-> <<>>]
ProjTree ==
    [files |-> <<Py("m"), <<"R", ".", "m", "d">>>>,
     dirs |-> << [name |-> <<".", "g">>, node |-> Leaf(<<Py("h")>>)],
                 [name |-> <<"__pycache__">>, node |-> Leaf(<<Py("c")>>)],
                 [name |-> <<"node_modules">>, node |-> Leaf(<<Py("n")>>)],
                 [name |-> <<"p">>,
                  node |-> [files |-> <<Py("u"), <<"d">>>>,
                            dirs |-> << [name |-> <<".", "v">>,
                                         node |-> Leaf(<<Py("w")>>)] >>]] >>]

RECURSIVE NameStr(_)
NameStr(name) == IF name = <<>> THEN "" ELSE Head(name) \o NameStr(Tail(name))

\* os.path.join
Join(root, name) == root \o "/" \o NameStr(name)

\* str.endswith('.py')
EndsWithPy(name) ==
    Len(name) >= 3 /\ SubSeq(name, Len(name) - 2, Len(name)) = <<".", "p", "y">>

\* a bug: 'node_modules' left out of the list of pruned names
KeepDir_NoNodeModules(name) ==
    /\ ~(Len(name) >= 1 /\ name[1] = ".")
    /\ name \notin {<<"__pycache__">>}

\* the test that keeps a directory in dirs[:]
KeepDir(name) ==
    /\ ~(Len(name) >= 1 /\ name[1] = ".")
    /\ name \notin {<<"__pycache__">>, <<"node_modules">>}

\* the os.walk loop of get_project_context below one directory
RECURSIVE WalkNode(_, _)
RECURSIVE WalkDirs(_, _)
WalkDirs(root, dirs) ==
    IF dirs = <<>> THEN <<>>
    ELSE (IF KeepDir(Head(dirs).name)
          THEN WalkNode(Join(root, Head(dirs).name), Head(dirs).node)
          ELSE <<>>) \o WalkDirs(root, Tail(dirs))
WalkNode(root, node) ==
    [i \in 1..Len(SelectSeq(node.files, EndsWithPy)) |->
        Join(root, SelectSeq(node.files, EndsWithPy)[i])]
      \o WalkDirs(root, node.dirs)

\* the files the os.walk loop collects; walking a file yields nothing
PythonFiles(project_path) ==
    IF fs[project_path].kind = "dir" THEN WalkNode(project_path, ProjTree)
    ELSE <<>>

\* a bug: the walk moved under `if result["success"]`
get_project_context_WalkOnSuccess(project_path, r) ==
    IF r.raised
    THEN Ret([project_path |-> project_path, python_files |-> <<>>,
              pyrefly_compatible |-> FALSE, analysis_summary |-> EmptyDict,
              error |-> r.msg])
    ELSE Ret([project_path |-> project_path,
              python_files |-> IF r.value.success THEN PythonFiles(project_path)
                               ELSE <<>>,
              pyrefly_compatible |-> r.value.success,
              analysis_summary |->
                  IF r.value.success
                  THEN [output |-> r.value.stdout,
                        total_files |-> Len(PythonFiles(project_path))]
                  ELSE EmptyDict])

\* PyreflyAnalyzer.get_project_context, given what run_pyrefly_command did
get_project_context(project_path, r) ==
    IF r.raised
    THEN Ret([project_path |-> project_path, python_files |-> <<>>,
              pyrefly_compatible |-> FALSE, analysis_summary |-> EmptyDict,
              error |-> r.msg])
    ELSE Ret([project_path |-> project_path,
              python_files |-> PythonFiles(project_path),
              pyrefly_compatible |-> r.value.success,
              analysis_summary |->
                  IF r.value.success
                  THEN [output |-> r.value.stdout,
                        total_files |-> Len(PythonFiles(project_path))]
                  ELSE EmptyDict])

----------------------------------------------------------------------------
(* handle_call_tool: the response of each branch *)

FilesShown == 20

\* return [types.TextContent(type="text", text=...)]
Text(t) == Ret([type |-> "text", text |-> t])

\* subscripting a dict: d[key] raises KeyError when the key is absent
HasKey(d, key) == key \in DOMAIN d
KeyError(key) == Raise("KeyError", <<"'", key, "'">>)

\* chr(10).join(f"  - {name}: {type_hint}" for ... in suggested_types.items())
RECURSIVE SuggestedBullets(_)
SuggestedBullets(d) ==
    IF DOMAIN d = {} THEN <<>>
    ELSE LET k == CHOOSE x \in DOMAIN d : TRUE
             rest == [x \in DOMAIN d \ {k} |-> d[x]]
         IN  <<"  - ", k, ": ", d[k]>>
               \o (IF DOMAIN rest = {} THEN <<>> ELSE <<"\n">>)
               \o SuggestedBullets(rest)

\* the analyze_python_file branch after analyze_file returned a
AnalyzeText(file_path, detailed, a) ==
    LET funcs == Get(a, "functions_needing_types", <<>>)
        vars_ == Get(a, "variables_needing_types", <<>>)
    IN  IF detailed
        THEN <<"Detailed Pyrefly Analysis for ", file_path,
               ":\n\nFunctions needing types (", ToString(Len(funcs)), "):\n">>
             \o Bullets(funcs)
             \o <<"\n\nVariables needing types (", ToString(Len(vars_)), "):\n">>
             \o Bullets(vars_)
             \o <<"\n\nSuggested types:\n">>
             \o SuggestedBullets(Get(a, "suggested_types", EmptyDict))
             \o <<"\n\nPyrefly Output:\n">>
             \o Get(a, "pyrefly_output", <<"No output available">>)
        ELSE <<"Pyrefly Analysis for ", file_path,
               ":\nFunctions needing types: ", ToString(Len(funcs)),
               "\nVariables needing types: ", ToString(Len(vars_))>>

AnalyzeResponse(file_path, detailed, a) ==
    IF a.raised THEN a ELSE Text(AnalyzeText(file_path, detailed, a.value))

\* the add_types_to_file branch after run_pyrefly_autotype returned r
AddTypesResponse(file_path, r) ==
    IF r.raised THEN r
    ELSE IF r.value.success
    THEN IF HasKey(r.value, "stdout")
         THEN Text(<<"Successfully added types to ", file_path, "\n\nOutput:\n">>
                     \o r.value.stdout)
         ELSE KeyError("stdout")
    ELSE Text(<<"Failed to add types to ", file_path, "\n\nError:\n">>
                \o Get(r.value, "error",
                       Get(r.value, "stderr", <<"Unknown error">>)))

\* the type_check_file branch after run_pyrefly_check returned r
TypeCheckResponse(file_path, r) ==
    IF r.raised THEN r
    ELSE IF ~HasKey(r.value, "output") THEN KeyError("output")
    ELSE IF r.value.success
    THEN Text(<<"Type checking passed for ", file_path, "\n\nOutput:\n">>
                \o r.value.output)
    ELSE Text(<<"Type checking found issues in ", file_path, "\n\nErrors:\n">>
                \o r.value.output \o <<"\n">> \o Get(r.value, "errors", <<>>))

\* the get_project_context branch after get_project_context returned c
ProjectContextText(project_path, c) ==
    LET files == Get(c, "python_files", <<>>)
        shown == SubSeq(files, 1, IF Len(files) < FilesShown THEN Len(files)
                                  ELSE FilesShown)
    IN  <<"Project Context for ", project_path,
          ":\n\nPython files found: ", ToString(Len(files)),
          "\nPyrefly compatible: ", BoolStr(Get(c, "pyrefly_compatible", FALSE)),
          "\n\nAnalysis summary:\n">>
        \o Get(Get(c, "analysis_summary", EmptyDict), "output",
               <<"No analysis available">>)
        \o <<"\n\nFiles:\n">>
        \o Bullets([i \in 1..Len(shown) |-> <<shown[i]>>])
        \o <<"\n">>
        \o (IF Len(files) > FilesShown THEN <<"  ... and more">> ELSE <<>>)

ProjectContextResponse(project_path, c) ==
    IF c.raised THEN c ELSE Text(ProjectContextText(project_path, c.value))

\* what shutil.copy2 may raise for this source
CopyErrors(file_path) ==
    IF fs[file_path].kind = "dir"
    THEN {<<"[Errno 21] Is a directory: '", file_path, "'">>}
    ELSE {<<"[Errno 13] Permission denied: '", BackupPath(file_path), "'">>}

\* a bug: a failed run is tried again
AfterRun_Retry(r) == IF ~r.raised /\ ~r.value.success THEN "spawn" ELSE "respond"

\* a bug: after a failed run the handler waits for the process once more
AfterRun_WaitAgain(r) == IF ~r.raised /\ ~r.value.success THEN "wait" ELSE "respond"

\* where the handler goes once the run function has returned r: every branch
\* formats its response next
AfterRun(r) == "respond"

----------------------------------------------------------------------------
(* handle_get_prompt *)

PromptNames == {"analyze_typing_needs", "type_improvement_plan"}

\* the checks handle_get_prompt makes before it calls the analyzer
ValidatePrompt(r) ==
    IF r.name \notin PromptNames
    THEN Raise("ValueError", <<"Unknown prompt: ", r.name>>)
    ELSE IF PathArg(r.name, r.arguments) = ""
    THEN Raise("ValueError", <<PathKey(r.name), " argument is required">>)
    ELSE Ret(PathArg(r.name, r.arguments))

\* repr of a str and of a list of str
ReprStr(s) == <<"'">> \o s \o <<"'">>
RECURSIVE ReprItems(_)
ReprItems(items) ==
    IF items = <<>> THEN <<>>
    ELSE IF Len(items) = 1 THEN ReprStr(Head(items))
    ELSE ReprStr(Head(items)) \o <<", ">> \o ReprItems(Tail(items))
ReprList(items) == <<"[">> \o ReprItems(items) \o <<"]">>

\* str() of the dict analyze_file returned
ReprAnalysis(a) ==
    IF "error" \in DOMAIN a
    THEN <<"{'error': ">> \o ReprStr(a.error)
           \o (IF "file_path" \in DOMAIN a
               THEN <<", 'file_path': ">> \o ReprStr(<<a.file_path>>) ELSE <<>>)
           \o <<"}">>
    ELSE <<"{'file_path': ">> \o ReprStr(<<a.file_path>>)
           \o <<", 'functions_needing_types': ">> \o ReprList(a.functions_needing_types)
           \o <<", 'variables_needing_types': ">> \o ReprList(a.variables_needing_types)
           \o <<", 'suggested_types': {}, 'total_functions': ",
                ToString(a.total_functions), ", 'total_variables': ",
                ToString(a.total_variables), ", 'pyrefly_output': ">>
           \o ReprStr(a.pyrefly_output) \o <<"}">>

\* str() of the dict get_project_context returned
ReprContext(c) ==
    <<"{'project_path': ">> \o ReprStr(<<c.project_path>>)
      \o <<", 'python_files': ">>
      \o ReprList([i \in 1..Len(c.python_files) |-> <<c.python_files[i]>>])
      \o <<", 'pyrefly_compatible': ", BoolStr(c.pyrefly_compatible),
           ", 'analysis_summary': ">>
      \o (IF DOMAIN c.analysis_summary = {} THEN <<"{}">>
          ELSE <<"{'output': ">> \o ReprStr(c.analysis_summary.output)
                 \o <<", 'total_files': ", ToString(c.analysis_summary.total_files), "}">>)
      \o (IF "error" \in DOMAIN c THEN <<", 'error': ">> \o ReprStr(c.error) ELSE <<>>)
      \o <<"}">>

\* types.GetPromptResult with one user message
PromptResult(description, text) ==
    Ret([description |-> description, role |-> "user", type |-> "text",
         text |-> text])

\* the analyze_typing_needs branch after analyze_file returned a
AnalyzePromptResponse(file_path, arguments, a) ==
    IF a.raised THEN a
    ELSE PromptResult(
        <<"Type analysis for ", file_path>>,
        <<"Analyze this Python file for type annotation opportunities:\n\nFile: ",
          file_path,
          "\nPyrefly Analysis Results:\n\nFunctions needing types: ",
          ToString(Len(Get(a.value, "functions_needing_types", <<>>))),
          "\nVariables needing types: ",
          ToString(Len(Get(a.value, "variables_needing_types", <<>>))),
          "\n\nPyrefly Output:\n">>
        \o Get(a.value, "pyrefly_output", <<"No output available">>)
        \o <<"\n\nDetails:\n">> \o ReprAnalysis(a.value) \o <<"\n">>
        \o (IF LowerToken(Get(arguments, "include_suggestions", "false")) = "true"
            THEN <<"\n\nPlease provide specific type annotations for the identified functions and variables.">>
            ELSE <<>>))

\* the type_improvement_plan branch after get_project_context returned c
PlanPromptResponse(project_path, arguments, c) ==
    IF c.raised THEN c
    ELSE PromptResult(
        <<"Type improvement plan for ", project_path>>,
        <<"Create a type improvement plan for this Python project:\n\nProject: ",
          project_path, "\nPriority: ", Get(arguments, "priority", "medium"),
          "\nPython files found: ",
          ToString(Len(Get(c.value, "python_files", <<>>))),
          "\n\nProject context:\n">>
        \o ReprContext(c.value)
        \o <<"\n\nPlease suggest a prioritized plan for adding type annotations, considering:\n1. Files with the lowest type coverage\n2. Critical functions and public APIs\n3. Dependencies between modules\n4. Incremental typing strategy">>)

\* names a caller may pass with a prompt request
PromptCallNames == PromptNames \cup {"no_such_prompt", "get_project_context"}

\* arguments a caller may pass with a prompt request
PromptArgDicts(name) ==
    {p @@ f : p \in PathDicts,
              f \in IF name = "analyze_typing_needs"
                    THEN {EmptyDict, "include_suggestions" :> "True"}
                    ELSE IF name = "type_improvement_plan"
                    THEN {EmptyDict, "priority" :> "high"}
                    ELSE {EmptyDict}}

----------------------------------------------------------------------------
(* Listings and resources *)

\* the names of the tools handle_list_tools returns, in order
ListedTools ==
    <<"analyze_python_file", "add_types_to_file", "type_check_file",
      "get_project_context">>

\* the names of the prompts handle_list_prompts returns, in order
ListedPrompts == <<"analyze_typing_needs", "type_improvement_plan">>

\* the "supported_tools" array of the status resource
SupportedTools ==
    <<"analyze_python_file", "add_types_to_file", "type_check_file",
      "get_project_context">>

\* the items of a JSON array, separated by commas
RECURSIVE JsonItems(_)
JsonItems(items) ==
    IF items = <<>> THEN <<>>
    ELSE IF Len(items) = 1 THEN <<Head(items)>>
    ELSE <<Head(items), ", ">> \o JsonItems(Tail(items))

\* the text handle_read_resource returns for the status resource
StatusText ==
    <<"{status: active, capabilities: [Python file analysis, Type inference, Type checking, Project context analysis], supported_tools: [">>
      \o JsonItems(SupportedTools) \o <<"]}">>

\* the URIs a caller may read; str(uri) is scheme://rest
Uris == {[scheme |-> "pyrefly", rest |-> "analysis/status"],
         [scheme |-> "pyrefly", rest |-> "analysis/other"],
         [scheme |-> "file", rest |-> "analysis/status"]}
UriStr(uri) == uri.scheme \o "://" \o uri.rest

\* handle_read_resource
handle_read_resource(uri) ==
    IF uri.scheme # "pyrefly"
    THEN Raise("ValueError", <<"Unsupported URI scheme: ", uri.scheme>>)
    ELSE IF UriStr(uri) = "pyrefly://analysis/status"
    THEN Ret(StatusText)
    ELSE Raise("ValueError", <<"Unknown resource: ", UriStr(uri)>>)

----------------------------------------------------------------------------
(* Initial state: a.py is a file, proj is a directory, nothing else exists *)

NoUnit == [fn |-> "", input |-> <<>>, output |-> NotSet]

NoReq == [kind |-> "", name |-> "", hasArgs |-> FALSE, arguments |-> EmptyDict]

Init ==
    /\ fs = [p \in AllPaths |->
               IF p = "a.py" THEN File(0) ELSE IF p = "proj" THEN IsDir ELSE NoFile]
    /\ pc = "idle"
    /\ req = NoReq
    /\ proc = NoProc
    /\ spawned = 0
    /\ backup = "none"
    /\ atSpawn = NoFile
    /\ result = NotSet
    /\ analysis = NotSet
    /\ response = NotSet
    /\ project_context = EmptyDict
    /\ unit = NoUnit

\* the server accepts a tools/call request and enters handle_call_tool
CallTool(name, hasArgs, arguments) ==
    /\ pc = "idle"
    /\ pc' = "validate"
    /\ req' = [kind |-> "tool", name |-> name, hasArgs |-> hasArgs,
               arguments |-> arguments]
    /\ UNCHANGED <<project_context, unit, fs, proc, spawned, backup, atSpawn, result, analysis, response>>

\* the server accepts a prompts/get request and enters handle_get_prompt
CallPrompt(name, hasArgs, arguments) ==
    /\ pc = "idle"
    /\ pc' = "validate"
    /\ req' = [kind |-> "prompt", name |-> name, hasArgs |-> hasArgs,
               arguments |-> arguments]
    /\ UNCHANGED <<project_context, unit, fs, proc, spawned, backup, atSpawn, result, analysis, response>>

\* the server accepts a resources/read request and handle_read_resource
\* answers it
ReadResource(uri) ==
    /\ pc = "idle"
    /\ req' = [kind |-> "resource", name |-> UriStr(uri), hasArgs |-> FALSE,
               arguments |-> EmptyDict]
    /\ response' = handle_read_resource(uri)
    /\ pc' = "done"
    /\ UNCHANGED <<project_context, unit, fs, proc, spawned, backup, atSpawn, result, analysis>>

\* handle_list_tools answers a tools/list request
ListTools ==
    /\ pc = "idle"
    /\ req' = [kind |-> "list_tools", name |-> "", hasArgs |-> FALSE,
               arguments |-> EmptyDict]
    /\ response' = Ret(ListedTools)
    /\ pc' = "done"
    /\ UNCHANGED <<project_context, unit, fs, proc, spawned, backup, atSpawn, result, analysis>>

\* handle_list_prompts answers a prompts/list request
ListPrompts ==
    /\ pc = "idle"
    /\ req' = [kind |-> "list_prompts", name |-> "", hasArgs |-> FALSE,
               arguments |-> EmptyDict]
    /\ response' = Ret(ListedPrompts)
    /\ pc' = "done"
    /\ UNCHANGED <<project_context, unit, fs, proc, spawned, backup, atSpawn, result, analysis>>

\* the argument and existence checks of the dispatched branch
Validate ==
    /\ pc = "validate"
    /\ LET v == IF req.kind = "tool" THEN ValidateTool(req) ELSE ValidatePrompt(req)
       IN  IF v.raised
           THEN /\ response' = v
                /\ pc' = "done"
           ELSE /\ response' = response
                /\ pc' = IF req.kind = "tool" /\ req.name = "add_types_to_file"
                         THEN "backup" ELSE "spawn"
    /\ UNCHANGED <<project_context, unit, fs, req, proc, spawned, backup, atSpawn, result, analysis>>

\* the path the running handler has validated
Path == PathArg(req.name, req.arguments)

\* add_types_to_file with backup false: no copy is made
SkipBackup ==
    /\ pc = "backup"
    /\ ~Get(req.arguments, "backup", TRUE)
    /\ pc' = "spawn"
    /\ UNCHANGED <<project_context, unit, fs, req, proc, spawned, backup, atSpawn, result, analysis, response>>

\* a bug: the copy is written over the file itself
CopyBackup_WrongTarget ==
    /\ pc = "backup"
    /\ Get(req.arguments, "backup", TRUE)
    /\ fs[PathArg(req.name, req.arguments)].kind = "file"
    /\ fs' = [fs EXCEPT ![PathArg(req.name, req.arguments)] =
                            fs[PathArg(req.name, req.arguments)]]
    /\ backup' = "ok"
    /\ pc' = "spawn"
    /\ UNCHANGED <<project_context, unit, req, proc, spawned, atSpawn, result, analysis, response>>

\* a bug: an existing backup is kept instead of being overwritten
CopyBackup_KeepExisting ==
    /\ pc = "backup"
    /\ Get(req.arguments, "backup", TRUE)
    /\ fs[Path].kind = "file"
    /\ fs' = IF fs[BackupPath(Path)].kind = "file" THEN fs
             ELSE [fs EXCEPT ![BackupPath(Path)] = fs[Path]]
    /\ backup' = "ok"
    /\ pc' = "spawn"
    /\ UNCHANGED <<project_context, unit, req, proc, spawned, atSpawn, result, analysis, response>>

\* shutil.copy2(file_path, backup_path) succeeds
CopyBackup ==
    /\ pc = "backup"
    /\ Get(req.arguments, "backup", TRUE)
    /\ fs[Path].kind = "file"
    /\ fs' = [fs EXCEPT ![BackupPath(Path)] = fs[Path]]
    /\ backup' = "ok"
    /\ pc' = "spawn"
    /\ UNCHANGED <<project_context, unit, req, proc, spawned, atSpawn, result, analysis, response>>

\* shutil.copy2 raises: the handler returns the failure as text
CopyFails ==
    /\ pc = "backup"
    /\ Get(req.arguments, "backup", TRUE)
    /\ backup' = "failed"
    /\ \E e \in CopyErrors(Path) :
           response' = Text(<<"Failed to create backup: ">> \o e)
    /\ pc' = "done"
    /\ UNCHANGED <<project_context, unit, fs, req, proc, spawned, atSpawn, result, analysis>>

\* subprocess.run starts the process
Spawn ==
    /\ pc = "spawn"
    /\ proc' = [NoProc EXCEPT !.status = "running", !.fn = RunFn(req.name),
                              !.cmd = CmdOf(req.name, req.arguments),
                              !.timeout = TimeoutOf(req.name)]
    /\ spawned' = spawned + 1
    /\ atSpawn' = fs[Path]
    /\ pc' = "wait"
    /\ UNCHANGED <<project_context, unit, fs, req, backup, result, analysis, response>>

\* subprocess.run cannot start the process and raises e
LaunchFails(e) ==
    /\ pc = "spawn"
    /\ proc' = [NoProc EXCEPT !.status = "launchfail", !.fn = RunFn(req.name),
                              !.cmd = CmdOf(req.name, req.arguments),
                              !.timeout = TimeoutOf(req.name), !.exc = e]
    /\ spawned' = spawned + 1
    /\ atSpawn' = fs[Path]
    /\ result' = RunRecord(proc')
    /\ pc' = AfterRun(result')
    /\ UNCHANGED <<project_context, unit, fs, req, backup, analysis, response>>

\* the process exits; an autotype run leaves content c in the file
ProcExits(rc, out, err, c) ==
    /\ pc = "wait"
    /\ proc' = [proc EXCEPT !.status = "exited", !.rc = rc, !.out = out, !.err = err]
    /\ fs' = IF Rewrites(proc.cmd, Path) THEN [fs EXCEPT ![Path] = File(c)] ELSE fs
    /\ result' = RunRecord(proc')
    /\ pc' = AfterRun(result')
    /\ UNCHANGED <<project_context, unit, req, spawned, backup, atSpawn, analysis, response>>

\* the timeout fires and the process is killed; it may have written the file
ProcTimesOut(c) ==
    /\ pc = "wait"
    /\ proc' = [proc EXCEPT !.status = "timeout"]
    /\ fs' = IF Rewrites(proc.cmd, Path) THEN [fs EXCEPT ![Path] = File(c)] ELSE fs
    /\ result' = RunRecord(proc')
    /\ pc' = AfterRun(result')
    /\ UNCHANGED <<project_context, unit, req, spawned, backup, atSpawn, analysis, response>>

\* the rest of the analyze_python_file branch
RespondAnalyze ==
    /\ pc = "respond"
    /\ req.kind = "tool"
    /\ req.name = "analyze_python_file"
    /\ analysis' = analyze_file(Path, result)
    /\ response' = AnalyzeResponse(Path, Get(req.arguments, "detailed", FALSE),
                                   analysis')
    /\ pc' = "done"
    /\ UNCHANGED <<project_context, unit, fs, req, proc, spawned, backup, atSpawn, result>>

\* the rest of the add_types_to_file branch
RespondAddTypes ==
    /\ pc = "respond"
    /\ req.kind = "tool"
    /\ req.name = "add_types_to_file"
    /\ response' = AddTypesResponse(Path, result)
    /\ pc' = "done"
    /\ UNCHANGED <<project_context, unit, fs, req, proc, spawned, backup, atSpawn, result, analysis>>

\* the rest of the type_check_file branch
RespondTypeCheck ==
    /\ pc = "respond"
    /\ req.kind = "tool"
    /\ req.name = "type_check_file"
    /\ response' = TypeCheckResponse(Path, result)
    /\ pc' = "done"
    /\ UNCHANGED <<project_context, unit, fs, req, proc, spawned, backup, atSpawn, result, analysis>>

\* a bug: the context is kept in the analyzer for later calls
RespondProjectContext_Caches ==
    /\ pc = "respond"
    /\ req.kind = "tool"
    /\ req.name = "get_project_context"
    /\ analysis' = get_project_context(PathArg(req.name, req.arguments), result)
    /\ response' = ProjectContextResponse(PathArg(req.name, req.arguments), analysis')
    /\ project_context' = analysis'.value
    /\ pc' = "done"
    /\ UNCHANGED <<unit, fs, req, proc, spawned, backup, atSpawn, result>>

\* the rest of the get_project_context branch
RespondProjectContext ==
    /\ pc = "respond"
    /\ req.kind = "tool"
    /\ req.name = "get_project_context"
    /\ analysis' = get_project_context(Path, result)
    /\ response' = ProjectContextResponse(Path, analysis')
    /\ pc' = "done"
    /\ UNCHANGED <<project_context, unit, fs, req, proc, spawned, backup, atSpawn, result>>

\* the rest of the analyze_typing_needs branch
RespondAnalyzePrompt ==
    /\ pc = "respond"
    /\ req.kind = "prompt"
    /\ req.name = "analyze_typing_needs"
    /\ analysis' = analyze_file(Path, result)
    /\ response' = AnalyzePromptResponse(Path, req.arguments, analysis')
    /\ pc' = "done"
    /\ UNCHANGED <<project_context, unit, fs, req, proc, spawned, backup, atSpawn, result>>

\* the rest of the type_improvement_plan branch
RespondPlanPrompt ==
    /\ pc = "respond"
    /\ req.kind = "prompt"
    /\ req.name = "type_improvement_plan"
    /\ analysis' = get_project_context(Path, result)
    /\ response' = PlanPromptResponse(Path, req.arguments, analysis')
    /\ pc' = "done"
    /\ UNCHANGED <<project_context, unit, fs, req, proc, spawned, backup, atSpawn, result>>

\* the response (or the error) is sent to the caller; the handler's locals
\* are gone and the server waits for the next request
Return ==
    /\ pc = "done"
    /\ pc' = "idle"
    /\ req' = NoReq
    /\ proc' = NoProc
    /\ spawned' = 0
    /\ backup' = "none"
    /\ atSpawn' = NoFile
    /\ result' = NotSet
    /\ analysis' = NotSet
    /\ response' = NotSet
    /\ UNCHANGED <<project_context, unit, fs>>

Next ==
    \/ \E name \in CallNames : \E a \in ArgDicts(name) : CallTool(name, TRUE, a)
    \/ \E name \in CallNames : CallTool(name, FALSE, EmptyDict)
    \/ \E name \in PromptCallNames :
           \E a \in PromptArgDicts(name) : CallPrompt(name, TRUE, a)
    \/ \E name \in PromptCallNames : CallPrompt(name, FALSE, EmptyDict)
    \/ \E uri \in Uris : ReadResource(uri)
    \/ ListTools
    \/ ListPrompts
    \/ Validate
    \/ SkipBackup
    \/ CopyBackup
    \/ CopyFails
    \/ Spawn
    \/ \E e \in LaunchErrors : LaunchFails(e)
    \/ \E rc \in ReturnCodes, out \in Stdouts, err \in Stderrs, c \in Contents :
           ProcExits(rc, out, err, c)
    \/ \E c \in Contents : ProcTimesOut(c)
    \/ RespondAnalyze
    \/ RespondAddTypes
    \/ RespondTypeCheck
    \/ RespondProjectContext
    \/ RespondAnalyzePrompt
    \/ RespondPlanPrompt
    \/ Return

Spec == Init /\ [][Next]_vars

\* the steps that are bound to happen: the event loop runs the awaited
\* handler on, and subprocess.run(timeout=...) raises TimeoutExpired unless
\* the process has exited before; the exit of the process is up to the
\* process and is not among them
Step ==
    \/ Validate
    \/ SkipBackup
    \/ CopyBackup
    \/ CopyFails
    \/ Spawn
    \/ \E e \in LaunchErrors : LaunchFails(e)
    \/ \E c \in Contents : ProcTimesOut(c)
    \/ RespondAnalyze
    \/ RespondAddTypes
    \/ RespondTypeCheck
    \/ RespondProjectContext
    \/ RespondAnalyzePrompt
    \/ RespondPlanPrompt

LiveSpec == Init /\ [][Next]_vars /\ WF_vars(Step)

----------------------------------------------------------------------------
(* _parse_pyrefly_analysis applied on its own to every bounded output *)

\* the variables the function-level specifications leave at rest
AtRest ==
    /\ fs = [p \in AllPaths |->
               IF p = "a.py" THEN File(0) ELSE IF p = "proj" THEN IsDir ELSE NoFile]
    /\ pc = "unit"
    /\ req = NoReq
    /\ proc = NoProc
    /\ spawned = 0
    /\ backup = "none"
    /\ atSpawn = NoFile
    /\ result = NotSet
    /\ analysis = NotSet
    /\ response = NotSet
    /\ project_context = EmptyDict

InitParse ==
    /\ AtRest
    /\ \E output \in ParseInputs :
           unit = [fn |-> "_parse_pyrefly_analysis", input |-> output,
                   output |-> NotSet]

ApplyParse ==
    /\ unit.fn = "_parse_pyrefly_analysis"
    /\ ~unit.output.set
    /\ unit' = [unit EXCEPT !.output = Ret(_parse_pyrefly_analysis(unit.input, "a.py"))]
    /\ UNCHANGED <<fs, pc, req, proc, spawned, backup, atSpawn, result, analysis,
                   response, project_context>>

NextParse == ApplyParse

SpecParse == InitParse /\ [][NextParse]_vars

----------------------------------------------------------------------------
(* the os.walk loop of get_project_context applied on its own to bounded trees *)

\* the entries a directory may hold, in listing order
WalkDirNames == << <<"p">>, <<".", "g">>, <<"__pycache__">>, <<"node_modules">> >>
WalkFiles ==
    << Py("m"), <<"m", ".", "p", "y", "c">>, <<".", "p", "y">>, <<"R", ".", "m", "d">> >>
\* the last component of project_path
RootNames == { <<"proj">>, <<".", "proj">>, <<"node_modules">> }

\* the sets of at most n directories below the root, each given by the names
\* on the way to it from the root; a directory is there only with its parent
RECURSIVE DirSets(_)
DirSets(n) ==
    IF n = 0 THEN {{}}
    ELSE DirSets(n - 1) \cup
         UNION { { D \cup {Append(q, WalkDirNames[i])} :
                     q \in D \cup {<<>>}, i \in 1..Len(WalkDirNames) } :
                 D \in DirSets(n - 1) }

\* what os.walk finds at directory q of the tree D: every directory holds
\* the files WalkFiles
RECURSIVE TreeAt(_, _)
TreeAt(D, q) ==
    LET Present(name) == Append(q, name) \in D
        names == SelectSeq(WalkDirNames, Present)
    IN  [files |-> WalkFiles,
         dirs |-> [i \in 1..Len(names) |->
                     [name |-> names[i], node |-> TreeAt(D, Append(q, names[i]))]]]

InitWalk ==
    /\ AtRest
    /\ \E root \in RootNames, D \in DirSets(MaxDirs) :
           unit = [fn |-> "os.walk", input |-> [root |-> root, dirs |-> D],
                   output |-> NotSet]

ApplyWalk ==
    /\ unit.fn = "os.walk"
    /\ ~unit.output.set
    /\ unit' = [unit EXCEPT !.output =
                    Ret(WalkNode(NameStr(unit.input.root),
                                 TreeAt(unit.input.dirs, <<>>)))]
    /\ UNCHANGED <<fs, pc, req, proc, spawned, backup, atSpawn, result, analysis,
                   response, project_context>>

NextWalk == ApplyWalk

SpecWalk == InitWalk /\ [][NextWalk]_vars

----------------------------------------------------------------------------
(* server.run: the event loop with several requests in flight. Every request
   gets a task of its own; the loop runs one task at a time and can switch to
   another one only where the running task suspends. *)

\* the requests sent to the server while another one may be running; the
\* process prints nothing here
LoopRequests ==
    { [kind |-> "tool", name |-> "add_types_to_file", hasArgs |-> TRUE,
       arguments |-> "file_path" :> "a.py"],
      [kind |-> "tool", name |-> "add_types_to_file", hasArgs |-> TRUE,
       arguments |-> ("file_path" :> "a.py") @@ ("backup" :> FALSE)],
      [kind |-> "tool", name |-> "analyze_python_file", hasArgs |-> TRUE,
       arguments |-> "file_path" :> "a.py"],
      [kind |-> "tool", name |-> "type_check_file", hasArgs |-> TRUE,
       arguments |-> "file_path" :> "a.py"],
      [kind |-> "tool", name |-> "get_project_context", hasArgs |-> TRUE,
       arguments |-> "project_path" :> "proj"] }

\* a variant: the process is awaited through asyncio's subprocess API, so
\* the handler is suspended while the process runs
SuspensionPoints_AwaitProcess == {"wait"}

\* the positions at which a running handler gives control back to the event
\* loop: every `await` of the handlers is on a coroutine of this module, and
\* none of them awaits anything but subprocess.run, which blocks the thread
SuspensionPoints == {}

\* the locals of the running handler
Context ==
    [pc |-> pc, req |-> req, proc |-> proc, spawned |-> spawned,
     backup |-> backup, atSpawn |-> atSpawn, result |-> result,
     analysis |-> analysis, response |-> response]

\* the task of a request whose handler has not run yet
NewTask(r) ==
    [pc |-> "validate", req |-> r, proc |-> NoProc, spawned |-> 0,
     backup |-> "none", atSpawn |-> NoFile, result |-> NotSet,
     analysis |-> NotSet, response |-> NotSet]

\* unit.input holds the ready tasks of the loop, oldest first
InitLoop ==
    /\ fs = [p \in AllPaths |->
               IF p = "a.py" THEN File(0) ELSE IF p = "proj" THEN IsDir ELSE NoFile]
    /\ pc = "idle"
    /\ req = NoReq
    /\ proc = NoProc
    /\ spawned = 0
    /\ backup = "none"
    /\ atSpawn = NoFile
    /\ result = NotSet
    /\ analysis = NotSet
    /\ response = NotSet
    /\ project_context = EmptyDict
    /\ unit = [fn |-> "server.run", input |-> <<>>, output |-> NotSet]

\* a request arrives and the server makes a task for it
Accept(r) ==
    /\ unit.fn = "server.run"
    /\ Len(unit.input) < MaxPending
    /\ unit' = [unit EXCEPT !.input = Append(@, NewTask(r))]
    /\ UNCHANGED <<fs, pc, req, proc, spawned, backup, atSpawn, result, analysis,
                   response, project_context>>

\* the loop runs the oldest ready task: when no handler is running, or when
\* the running one is suspended, which then joins the ready tasks
Dispatch ==
    /\ unit.fn = "server.run"
    /\ unit.input # <<>>
    /\ pc = "idle" \/ pc \in SuspensionPoints
    /\ LET t == Head(unit.input)
       IN  /\ pc' = t.pc
           /\ req' = t.req
           /\ proc' = t.proc
           /\ spawned' = t.spawned
           /\ backup' = t.backup
           /\ atSpawn' = t.atSpawn
           /\ result' = t.result
           /\ analysis' = t.analysis
           /\ response' = t.response
    /\ unit' = [unit EXCEPT !.input =
                    Tail(@) \o (IF pc = "idle" THEN <<>> ELSE <<Context>>)]
    /\ UNCHANGED <<fs, project_context>>

NextLoop ==
    \/ \E r \in LoopRequests : Accept(r)
    \/ Dispatch
    \/ Validate
    \/ SkipBackup
    \/ CopyBackup
    \/ CopyFails
    \/ Spawn
    \/ \E e \in LaunchErrors : LaunchFails(e)
    \/ \E rc \in ReturnCodes, c \in Contents : ProcExits(rc, <<>>, <<>>, c)
    \/ \E c \in Contents : ProcTimesOut(c)
    \/ RespondAnalyze
    \/ RespondAddTypes
    \/ RespondTypeCheck
    \/ RespondProjectContext
    \/ Return

SpecLoop == InitLoop /\ [][NextLoop]_vars

----------------------------------------------------------------------------
(* Properties *)

\* what the properties need to know about the request being handled
IsTool(name) == req.kind = "tool" /\ req.name = name
Running == pc # "idle"
ReqPath ==
    IF req.name \in {"get_project_context", "type_improvement_plan"}
    THEN Get(req.arguments, "project_path", "")
    ELSE Get(req.arguments, "file_path", "")
OnDisk(path) == path \in DOMAIN fs /\ fs[path].kind # "absent"
ProcFailed == proc.status \in {"timeout", "launchfail"}
                 \/ (proc.status = "exited" /\ proc.rc # 0)
RaisedValueError == response.set /\ response.raised /\ response.exc = "ValueError"
ReturnedText == response.set /\ ~response.raised
\* the error string of a failed run: its error, or else its captured stderr
ErrorOfRun == IF proc.status = "exited" THEN proc.err ELSE result.value.error

\* C1: when a call of one of the four tools has no path argument, an empty
\* one, or one that names nothing on the filesystem, the handler goes from
\* validation straight to raising ValueError: no process is spawned and no
\* backup is written in that invocation.
C1_ValidationPrecedesEffects ==
    (Running /\ req.kind = "tool" /\ req.name \in ToolNames
        /\ (~req.hasArgs \/ ReqPath = "" \/ ~OnDisk(ReqPath)))
    => /\ pc \in {"validate", "done"}
       /\ spawned = 0
       /\ proc.status = "none"
       /\ backup = "none"
       /\ pc = "done" => RaisedValueError

C1_Witness ==
    /\ pc = "done"
    /\ IsTool("add_types_to_file")
    /\ ReqPath = "missing.py"
    /\ RaisedValueError
    /\ response.msg = <<"File not found: ", "missing.py">>

\* C2: in every record a run function returns, success is true exactly when
\* the process ran to completion with exit code 0.
C2_SuccessIffExitZero ==
    (result.set /\ ~result.raised)
    => (result.value.success <=> (proc.status = "exited" /\ proc.rc = 0))

C2_Witness ==
    /\ result.set
    /\ proc.fn = "run_pyrefly_command"
    /\ proc.status = "exited"
    /\ proc.rc = 1
    /\ ~result.value.success

\* C3: an invocation calls subprocess.run at most once, and once the run has
\* failed the handler only formats its response: the process is over and no
\* other one is started.
C3_AtMostOneProcess ==
    /\ spawned <= 1
    /\ (result.set /\ ProcFailed) => (spawned = 1 /\ pc \in {"respond", "done"})

C3_Witness ==
    /\ pc = "done"
    /\ req.kind = "prompt"
    /\ spawned = 1
    /\ proc.status = "timeout"

TimeoutMessages ==
    {<<"Pyrefly execution timed out after ", "60", "s">>,
     <<"Pyrefly autotype execution timed out">>,
     <<"Pyrefly check execution timed out">>}

\* C4: a run function never raises: after a timeout or a launch exception it
\* has returned a record with success false and an error string, which is a
\* timeout message for a timeout and the exception text otherwise.
C4_RunNeverRaises ==
    (result.set /\ proc.status \in {"timeout", "launchfail"})
    => /\ ~result.raised
       /\ ~result.value.success
       /\ "error" \in DOMAIN result.value
       /\ proc.status = "timeout" => result.value.error \in TimeoutMessages
       /\ proc.status = "launchfail" => result.value.error = proc.exc

C4_Witness ==
    /\ result.set
    /\ proc.fn = "run_pyrefly_check"
    /\ proc.status = "timeout"
    /\ result.value.error = <<"Pyrefly check execution timed out">>

\* C5: when type_check_file runs on an existing file and the check times out
\* or cannot be launched, the handler returns a text that contains the error
\* string of the result record.
C5_TypeCheckSurfacesError ==
    (pc = "done" /\ IsTool("type_check_file") /\ result.set
        /\ proc.status \in {"timeout", "launchfail"})
    => (ReturnedText /\ Contains(response.value.text, result.value.error))

\* C6: when analyze_python_file runs on an existing file and the process
\* fails, the returned text contains the error string or the captured stderr
\* of the failed run.
C6_AnalyzeSurfacesError ==
    (pc = "done" /\ IsTool("analyze_python_file") /\ result.set /\ ProcFailed)
    => (ReturnedText /\ Contains(response.value.text, ErrorOfRun))

\* C7: when get_project_context runs on an existing path and the check
\* fails, the returned text contains the error string or the captured stderr
\* of the failed run.
C7_ProjectContextSurfacesError ==
    (pc = "done" /\ IsTool("get_project_context") /\ result.set /\ ProcFailed)
    => (ReturnedText /\ Contains(response.value.text, ErrorOfRun))

\* C8: the captured stdout of a completed process is relayed unchanged: it
\* is the stdout field of run_pyrefly_command's and run_pyrefly_autotype's
\* record, the output field of run_pyrefly_check's record, and the
\* pyrefly_output field of a successful analyze_file.
C8_StdoutRelayed ==
    (result.set /\ ~result.raised /\ proc.status = "exited")
    => /\ proc.fn = "run_pyrefly_check" => result.value.output = proc.out
       /\ proc.fn # "run_pyrefly_check" => result.value.stdout = proc.out
       /\ (analysis.set /\ proc.rc = 0
              /\ req.name \in {"analyze_python_file", "analyze_typing_needs"})
          => (~analysis.raised /\ analysis.value.pyrefly_output = proc.out)

C8_Witness ==
    /\ analysis.set
    /\ IsTool("analyze_python_file")
    /\ proc.status = "exited"
    /\ proc.rc = 0
    /\ proc.out = <<" ", "TYPE">>
    /\ analysis.value.pyrefly_output = <<" ", "TYPE">>

AnalysisKeys ==
    {"functions_needing_types", "variables_needing_types", "pyrefly_output"}

\* C9: analyze_file returns a record, whatever the path and however the
\* command ended; its file_path is the argument; after a success it has the
\* three analysis keys and no error key, after a failure it has an error key
\* and none of the three.
C9_AnalyzeFileRecord ==
    (analysis.set /\ req.name \in {"analyze_python_file", "analyze_typing_needs"})
    => /\ ~analysis.raised
       /\ "file_path" \in DOMAIN analysis.value
       /\ analysis.value.file_path = ReqPath
       /\ ~ProcFailed => /\ AnalysisKeys \subseteq DOMAIN analysis.value
                         /\ "error" \notin DOMAIN analysis.value
       /\ ProcFailed => /\ "error" \in DOMAIN analysis.value
                        /\ AnalysisKeys \cap DOMAIN analysis.value = {}

C9_Witness ==
    /\ analysis.set
    /\ req.kind = "prompt"
    /\ req.name = "analyze_typing_needs"
    /\ ReqPath = "missing.py"
    /\ proc.status = "exited"
    /\ proc.rc = 1
    /\ DOMAIN analysis.value = {"error", "file_path"}

\* C10: add_types_to_file with backup true copies the file to its .backup
\* path before the process is spawned, so once the process has been spawned
\* the backup holds what the file held at that moment; when the copy fails
\* the handler returns 'Failed to create backup: ...' and spawns nothing.
C10_BackupBeforeSpawn ==
    (Running /\ IsTool("add_types_to_file") /\ Get(req.arguments, "backup", TRUE))
    => /\ spawned > 0 => /\ backup = "ok"
                         /\ fs[ReqPath \o ".backup"] = atSpawn
                         /\ atSpawn.kind = "file"
       /\ backup = "failed" => /\ spawned = 0
                               /\ proc.status = "none"
                               /\ pc = "done"
                               /\ ReturnedText
                               /\ response.value.text[1] = "Failed to create backup: "

C10_Witness ==
    /\ pc = "done"
    /\ IsTool("add_types_to_file")
    /\ backup = "ok"
    /\ spawned = 1
    /\ proc.status = "exited"
    /\ fs["a.py.backup"] = atSpawn
    /\ fs["a.py"] # atSpawn

\* C11: the two prompts validate like the tools: the path argument must be
\* present and must exist on the filesystem before the process invocation is
\* built, so no process is spawned for a missing, empty or non-existent path.
C11_PromptValidationPrecedesSpawn ==
    (Running /\ req.kind = "prompt" /\ req.name \in {"analyze_typing_needs",
                                                     "type_improvement_plan"}
        /\ (ReqPath = "" \/ ~OnDisk(ReqPath)))
    => /\ spawned = 0
       /\ proc.status = "none"

\* the response the running handler owes its caller, computed from this
\* request, the filesystem and the outcome of this invocation's process alone
ResponsesByInputs ==
    IF req.kind = "tool"
    THEN IF ValidateTool(req).raised THEN {ValidateTool(req)}
         ELSE IF req.name = "analyze_python_file"
         THEN {AnalyzeResponse(ReqPath, Get(req.arguments, "detailed", FALSE),
                               analyze_file(ReqPath, RunRecord(proc)))}
         ELSE IF req.name = "add_types_to_file"
         THEN IF backup = "failed"
              THEN {Text(<<"Failed to create backup: ">> \o e) : e \in CopyErrors(ReqPath)}
              ELSE {AddTypesResponse(ReqPath, RunRecord(proc))}
         ELSE IF req.name = "type_check_file"
         THEN {TypeCheckResponse(ReqPath, RunRecord(proc))}
         ELSE {ProjectContextResponse(ReqPath,
                                      get_project_context(ReqPath, RunRecord(proc)))}
    ELSE IF ValidatePrompt(req).raised THEN {ValidatePrompt(req)}
    ELSE IF req.name = "analyze_typing_needs"
    THEN {AnalyzePromptResponse(ReqPath, req.arguments,
                                analyze_file(ReqPath, RunRecord(proc)))}
    ELSE {PlanPromptResponse(ReqPath, req.arguments,
                             get_project_context(ReqPath, RunRecord(proc)))}

\* C12: no in-memory state crosses calls: the analyzer's project_context is
\* empty after any sequence of operations, and the response of a tool call or
\* prompt request is the one its own arguments, the filesystem and its own
\* process outcome determine, whatever was handled before.
C12_NoStateAcrossCalls ==
    /\ project_context = EmptyDict
    /\ (pc = "done" /\ req.kind \in {"tool", "prompt"})
       => response \in ResponsesByInputs

C12_Witness ==
    /\ pc = "done"
    /\ IsTool("get_project_context")
    /\ ReqPath = "proj"
    /\ ReturnedText
    /\ fs["a.py.backup"].kind = "file"
    /\ project_context = EmptyDict

ToSet(s) == {s[i] : i \in 1..Len(s)}
IsUnknown(what) ==
    response.set /\ response.raised /\ response.exc = "ValueError"
        /\ response.msg = <<what, req.name>>

\* C13: the tool names are the same everywhere: tools/list returns, and the
\* status resource names under supported_tools, exactly the four names the
\* dispatch accepts; a call with arguments is refused as 'Unknown tool'
\* exactly when its name is not one of them, and then spawns nothing; a
\* prompt request is refused as 'Unknown prompt' exactly when its name is not
\* one of the two that prompts/list returns.
C13_NamesConsistent ==
    /\ (pc = "done" /\ req.kind = "list_tools")
       => /\ Len(response.value) = 4
          /\ ToSet(response.value) = ToSet(SupportedTools)
    /\ (pc = "done" /\ req.kind = "resource" /\ ReturnedText)
       => {response.value[i] : i \in 2..(Len(response.value) - 1)} \ {", "}
             = ToSet(ListedTools)
    /\ (pc = "done" /\ req.kind = "tool" /\ req.hasArgs /\ DOMAIN req.arguments # {})
       => (IsUnknown("Unknown tool: ") <=> req.name \notin ToSet(ListedTools))
    /\ (Running /\ req.kind = "tool" /\ req.name \notin ToSet(ListedTools))
       => (spawned = 0 /\ backup = "none" /\ pc \in {"validate", "done"})
    /\ (pc = "done" /\ req.kind = "list_prompts")
       => Len(response.value) = 2
    /\ (pc = "done" /\ req.kind = "prompt")
       => (IsUnknown("Unknown prompt: ") <=> req.name \notin ToSet(ListedPrompts))

C13_Witness ==
    /\ pc = "done"
    /\ req.kind = "tool"
    /\ req.name = "analyze_typing_needs"
    /\ DOMAIN req.arguments = {"file_path"}
    /\ IsUnknown("Unknown tool: ")

\* the lines of an output, read off the positions of its newlines, each
\* without the blanks at its ends
LineOf(o, i) == 1 + Cardinality({j \in 1..(i - 1) : o[j] = "\n"})
LineCount(o) == 1 + Cardinality({j \in 1..Len(o) : o[j] = "\n"})
Inner(o, k) ==
    {i \in 1..Len(o) : LineOf(o, i) = k /\ o[i] \notin {"\n", " "}}
Least(S) == CHOOSE i \in S : \A j \in S : i <= j
Greatest(S) == CHOOSE i \in S : \A j \in S : j <= i
StrippedLine(o, k) ==
    IF Inner(o, k) = {} THEN <<>>
    ELSE SubSeq(o, Least(Inner(o, k)), Greatest(Inner(o, k)))
StrippedLines(o) == [k \in 1..LineCount(o) |-> StrippedLine(o, k)]
Mentions(line, forms) == \E i \in 1..Len(line) : line[i] \in forms
AboutFunction(line) ==
    Mentions(line, {"Function"}) /\ Mentions(line, {"TYPE", "Typed"})
AboutVariableOnly(line) ==
    /\ Mentions(line, {"variable"}) /\ Mentions(line, {"TYPE", "Typed"})
    /\ ~AboutFunction(line)

\* C14: functions_needing_types is, in output order, the stripped lines that
\* contain 'function' and 'type' in any case; variables_needing_types is the
\* stripped lines that contain 'variable' and 'type' and are not function
\* lines; so a line is in at most one list and every other line is dropped.
C14_LinesClassified ==
    (unit.fn = "_parse_pyrefly_analysis" /\ unit.output.set)
    => /\ ~unit.output.raised
       /\ unit.output.value.functions_needing_types
             = SelectSeq(StrippedLines(unit.input), AboutFunction)
       /\ unit.output.value.variables_needing_types
             = SelectSeq(StrippedLines(unit.input), AboutVariableOnly)

C14_Witness ==
    /\ unit.input = <<" ", "Function", "variable", "Typed", " ">>
    /\ unit.output.set
    /\ unit.output.value.functions_needing_types
          = << <<"Function", "variable", "Typed">> >>
    /\ unit.output.value.variables_needing_types = <<>>

\* the external check of the running request ended with exit status 0
CheckSucceeded == proc.status = "exited" /\ proc.rc = 0
\* the Python files of the project directory that are not under a pruned
\* directory, in walk order
FilesOnDisk(path) ==
    IF fs[path].kind = "dir" THEN <<"proj/m.py", "proj/p/u.py">> ELSE <<>>

\* C15: in the record of get_project_context, pyrefly_compatible is the
\* success flag of the external check; analysis_summary is non-empty exactly
\* when the check succeeded, and then holds the number of python_files and
\* the check's stdout; python_files is collected either way.
C15_ProjectContextRecord ==
    (analysis.set /\ req.name \in {"get_project_context", "type_improvement_plan"})
    => /\ ~analysis.raised
       /\ "error" \notin DOMAIN analysis.value
       /\ analysis.value.pyrefly_compatible = result.value.success
       /\ analysis.value.pyrefly_compatible = CheckSucceeded
       /\ (analysis.value.analysis_summary # EmptyDict) <=> CheckSucceeded
       /\ CheckSucceeded
          => /\ analysis.value.analysis_summary.total_files
                  = Len(analysis.value.python_files)
             /\ analysis.value.analysis_summary.output = proc.out
       /\ analysis.value.python_files = FilesOnDisk(ReqPath)

C15_Witness ==
    /\ pc = "done"
    /\ IsTool("get_project_context")
    /\ analysis.set
    /\ ProcFailed
    /\ analysis.value.analysis_summary = EmptyDict
    /\ Len(analysis.value.python_files) = 2

\* the path of file f in directory q below the root
RECURSIVE PathOf(_, _, _)
PathOf(root, q, f) ==
    IF q = <<>> THEN NameStr(root) \o "/" \o NameStr(f)
    ELSE PathOf(root \o <<"/">> \o Head(q), Tail(q), f)
\* a directory name the walk is meant to skip
Skipped(name) ==
    name[1] = "." \/ name = <<"__pycache__">> \/ name = <<"node_modules">>
PyName(f) ==
    Len(f) >= 3 /\ f[Len(f) - 2] = "." /\ f[Len(f) - 1] = "p" /\ f[Len(f)] = "y"
Walked == unit.fn = "os.walk" /\ unit.output.set
WalkedDirs == unit.input.dirs \cup {<<>>}
Listed == ToSet(unit.output.value)
ListedOnce ==
    /\ Listed \subseteq { PathOf(unit.input.root, q, WalkFiles[i]) :
                            q \in WalkedDirs, i \in 1..Len(WalkFiles) }
    /\ Cardinality(Listed) = Len(unit.output.value)

\* C16 as stated, project_path counted among the directories on the path: a
\* file is listed iff its name ends with '.py' and no directory from
\* project_path down to it has a skipped name; each listed file once.
C16_WalkListsUnprunedFromRoot ==
    Walked
    => /\ \A q \in WalkedDirs, i \in 1..Len(WalkFiles) :
             PathOf(unit.input.root, q, WalkFiles[i]) \in Listed
             <=> /\ PyName(WalkFiles[i])
                 /\ ~Skipped(unit.input.root)
                 /\ \A k \in 1..Len(q) : ~Skipped(q[k])
       /\ ListedOnce

\* C16 (amended): a file is listed iff its name ends with '.py' and no
\* directory below project_path on the path down to it has a name that
\* starts with '.' or is '__pycache__' or 'node_modules'; the name of
\* project_path itself is not tested; each listed file is listed once.
C16_WalkListsUnprunedBelowRoot ==
    Walked
    => /\ \A q \in WalkedDirs, i \in 1..Len(WalkFiles) :
             PathOf(unit.input.root, q, WalkFiles[i]) \in Listed
             <=> /\ PyName(WalkFiles[i])
                 /\ \A k \in 1..Len(q) : ~Skipped(q[k])
       /\ ListedOnce

C16_Witness ==
    /\ Walked
    /\ unit.input.root = <<".", "proj">>
    /\ unit.input.dirs = { <<<<"p">>>>, <<<<"node_modules">>>> }
    /\ unit.output.value = <<".proj/m.py", ".proj/.py", ".proj/p/m.py", ".proj/p/.py">>

\* a request is being handled and has not yet got its response or error
InHandler == pc \in {"validate", "backup", "spawn", "wait", "respond"}

\* C17: every tool call and prompt request eventually returns a response or
\* raises an error to the caller, given that the external process completes
\* or its timeout fires; until then the handler always has a step of its own
\* to take and waits on nothing else.
C17_EveryCallReturns ==
    /\ [](InHandler => ENABLED Step)
    /\ InHandler ~> (pc = "done" /\ response.set)

C17_Witness ==
    /\ pc = "done"
    /\ req.kind = "prompt"
    /\ proc.status = "timeout"
    /\ response.set

BackupStep ==
    IsTool("add_types_to_file")
    => /\ (pc = "backup" /\ backup' = "ok")
          => fs' = [fs EXCEPT ![ReqPath \o ".backup"] = fs[ReqPath]]
       /\ (pc \in {"spawn", "wait", "respond", "done"}
              /\ ReqPath \o ".backup" \in DOMAIN fs)
          => fs'[ReqPath \o ".backup"] = fs[ReqPath \o ".backup"]
       /\ pc \in {"spawn", "respond", "done"} => fs' = fs

\* C19: every add_types_to_file call with backup true overwrites
\* '<file_path>.backup' with what the file holds at that call, whatever an
\* earlier call left there (so after a second call the backup holds what the
\* first call's tool wrote); after the copy the handler never writes the file
\* back from the backup and never deletes or changes the backup, also when
\* the external tool fails.
C19_BackupOverwrittenNeverRestored == [][BackupStep]_vars

\* second call: the backup holds what the first call's tool wrote, the tool
\* has failed and has left other content in the file
C19_Witness ==
    /\ pc = "done"
    /\ IsTool("add_types_to_file")
    /\ backup = "ok"
    /\ ProcFailed
    /\ fs[ReqPath \o ".backup"] = File(1)
    /\ fs[ReqPath] = File(0)

\* the tool call being handled came with arguments None or {}
NoArguments == req.kind = "tool" /\ (~req.hasArgs \/ DOMAIN req.arguments = {})

\* C20: a tool call with arguments None or {} raises 'Missing arguments'
\* whatever the tool name is, known or unknown: it never gets the 'Unknown
\* tool' error or a per-tool argument error, and it copies and runs nothing.
C20_MissingArgumentsFirst ==
    (Running /\ NoArguments)
    => /\ pc \in {"validate", "done"}
       /\ spawned = 0
       /\ proc.status = "none"
       /\ backup = "none"
       /\ pc = "done" => response = Raise("ValueError", <<"Missing arguments">>)

C20_Witness ==
    /\ pc = "done"
    /\ req.kind = "tool"
    /\ req.name = "no_such_tool"
    /\ req.hasArgs
    /\ DOMAIN req.arguments = {}
    /\ response = Raise("ValueError", <<"Missing arguments">>)

\* the tasks of the event loop other than the running handler
OtherTasks == unit.input
\* the external processes started by the server that have not ended
AliveProcesses ==
    (IF proc.status = "running" THEN 1 ELSE 0)
      + Cardinality({i \in 1..Len(OtherTasks) : OtherTasks[i].proc.status = "running"})
\* a task has made its backup copy and its external tool has not ended
BetweenBackupAndRunEnd(t) ==
    t.backup = "ok" /\ t.pc \in {"spawn", "wait"}

\* C21: handlers do not interleave: every request that is in the server
\* besides the one being handled has not begun (requests are processed one
\* after the other), at most one external process started by the server is
\* alive, and no handler is running while another one is between its backup
\* copy and the end of its external tool run.
C21_HandlersDoNotInterleave ==
    unit.fn = "server.run"
    => /\ \A i \in 1..Len(OtherTasks) : OtherTasks[i] = NewTask(OtherTasks[i].req)
       /\ AliveProcesses <= 1
       /\ InHandler
          => \A i \in 1..Len(OtherTasks) : ~BetweenBackupAndRunEnd(OtherTasks[i])

\* the external tool of an add_types_to_file call is running after the
\* backup copy, and a request that reads the same file waits behind it
C21_Witness ==
    /\ unit.fn = "server.run"
    /\ pc = "wait"
    /\ proc.status = "running"
    /\ backup = "ok"
    /\ Len(OtherTasks) = 1
    /\ OtherTasks[1].req.name = "analyze_python_file"
====
